---- MODULE Spec2Model ----
(***************************************************************************)
(* Model of loan_affordability/service.py: the amortization calculator,    *)
(* the default lending policy, the affordability evaluator and the         *)
(* workflow of MortgageService.execute_workflow.                           *)
(*                                                                         *)
(* Numbers.  The source computes in binary floating point and rounds to a  *)
(* fixed number of decimals; the model computes the same quantities in     *)
(* exact integer arithmetic on scaled values:                              *)
(*   money inputs (income, debts, loan)   whole currency units             *)
(*   payments (rounded to 2 decimals)     hundredths (cents)               *)
(*   ratios  (rounded to 4 decimals)      ten-thousandths                  *)
(*   income multipliers                   tenths                           *)
(*   annual rates of the application      whole units (12 = 1200 %)        *)
(* round(x, k) is Python's round-half-even.                                *)
(***************************************************************************)
EXTENDS Integers, Sequences, FiniteSets, TLC

VARIABLES app, pc, monthly_payment, stressed_payment, dti, dti_stress,
          result, error

vars == <<app, pc, monthly_payment, stressed_payment, dti, dti_stress,
          result, error>>

(* Optional values: None is the empty tuple, Some(x) a one-element tuple. *)
None == << >>
Some(x) == <<x>>
Get(o) == o[1]

(***************************************************************************)
(* Scales                                                                  *)
(***************************************************************************)
Cents == 100
Ratio4 == 10000
Tenths == 10

(***************************************************************************)
(* Arithmetic helpers                                                      *)
(***************************************************************************)
RECURSIVE GCD(_, _)
GCD(a, b) == IF b = 0 THEN a ELSE GCD(b, a % b)

RECURSIVE Pow(_, _)
Pow(b, n) == IF n = 0 THEN 1 ELSE b * Pow(b, n - 1)

(* round(num / den) to the nearest integer, ties to the even one; den > 0 *)
RoundHalfEven(num, den) ==
    LET q == num \div den
        r == num % den
    IN  IF 2 * r < den THEN q
        ELSE IF 2 * r > den THEN q + 1
        ELSE IF q % 2 = 0 THEN q ELSE q + 1

(***************************************************************************)
(* Decision                                                                *)
(***************************************************************************)
APPROVED == "APPROVED"
REVIEW == "MANUAL_REVIEW"
DECLINED == "DECLINED"
Decision == {APPROVED, REVIEW, DECLINED}

(***************************************************************************)
(* LendingPolicy, default values                                           *)
(***************************************************************************)
max_dti == 5000
review_threshold == 4300
stress_threshold == 4300
base_market_rate == 420
default_review_grade == "C"
max_lti_excess == 12000
review_lti_excess == 11000

multipliers == (750 :> 45) @@ (700 :> 40) @@ (650 :> 35) @@ (0 :> 30)
credit_grades == (750 :> "A") @@ (700 :> "B") @@ (0 :> "C")
dti_grades == (3000 :> "A") @@ (4000 :> "B") @@ (10000 :> "C")
rate_adjustments == ("A" :> -40) @@ ("B" :> 0) @@ ("C" :> 130)

(* for threshold in sorted(keys, reverse=True): if query >= threshold *)
FirstDescending(table, query, default) ==
    LET hits == {t \in DOMAIN table : query >= t}
    IN  IF hits = {} THEN default
        ELSE table[CHOOSE t \in hits : \A u \in hits : u <= t]

(* for threshold in sorted(keys): if query <= threshold *)
FirstAscending(table, query, default) ==
    LET hits == {t \in DOMAIN table : query <= t}
    IN  IF hits = {} THEN default
        ELSE table[CHOOSE t \in hits : \A u \in hits : t <= u]

(* variant: the multiplier column entered in the opposite order *)
get_multiplier_Inverted(score) ==
    FirstDescending((750 :> 30) @@ (700 :> 35) @@ (650 :> 40) @@ (0 :> 45),
                    score, 30)

get_multiplier(score) == FirstDescending(multipliers, score, 30)

get_credit_grade(score) == FirstDescending(credit_grades, score, "C")

(* variant: strict comparison, if dti < threshold *)
get_dti_grade_Strict(d) ==
    LET hits == {t \in DOMAIN dti_grades : d < t}
    IN  IF hits = {} THEN "C"
        ELSE dti_grades[CHOOSE t \in hits : \A u \in hits : t <= u]

get_dti_grade(d) == FirstAscending(dti_grades, d, "C")

get_recommended_rate(risk_grade) ==
    LET adjustment == IF risk_grade \in DOMAIN rate_adjustments
                      THEN rate_adjustments[risk_grade] ELSE 0
    IN  base_market_rate + adjustment

(* max() of two grade letters under Python's string ordering *)
GradeOrd == ("A" :> 1) @@ ("B" :> 2) @@ ("C" :> 3)
(* variant: min() instead of max() *)
MaxGrade_Min(a, b) == IF GradeOrd[b] < GradeOrd[a] THEN b ELSE a
MaxGrade(a, b) == IF GradeOrd[b] > GradeOrd[a] THEN b ELSE a

(***************************************************************************)
(* MortgageCalculator                                                      *)
(***************************************************************************)
Return(v) == [ok |-> TRUE, err |-> "", val |-> v]
Raise(e) == [ok |-> FALSE, err |-> e, val |-> 0]

(* variant: the term test written years < 0, so that a zero term reaches    *)
(* the division by term_months = 0                                         *)
calculate_monthly_payment_ZeroTermPasses(loan, rate, years) ==
    IF years < 0 THEN Raise("ValueError")
    ELSE IF years = 0 THEN Raise("ZeroDivisionError")
    ELSE LET g == GCD(rate, 12)
             rn == rate \div g
             rd == 12 \div g
             term_months == years * 12
         IN  IF rn = 0
             THEN Return(RoundHalfEven(loan * Cents, term_months))
             ELSE LET growth == Pow(rd + rn, term_months)
                      unit == Pow(rd, term_months)
                  IN  Return(RoundHalfEven(loan * Cents * rn * growth,
                                           rd * (growth - unit)))

(* result in cents; monthly_rate = rate / 12 is kept as the fraction rn/rd *)
calculate_monthly_payment(loan, rate, years) ==
    IF years <= 0 THEN Raise("ValueError")
    ELSE LET g == GCD(rate, 12)
             rn == rate \div g
             rd == 12 \div g
             term_months == years * 12
         IN  IF rn = 0
             THEN Return(RoundHalfEven(loan * Cents, term_months))
             ELSE LET growth == Pow(rd + rn, term_months)
                      unit == Pow(rd, term_months)
                  IN  Return(RoundHalfEven(loan * Cents * rn * growth,
                                           rd * (growth - unit)))

(* variant: debts subtracted from the payment instead of added *)
calculate_dti_DebtsSubtracted(annual_income, monthly_debts, monthly_mortgage_payment) ==
    IF annual_income = 0 THEN 0
    ELSE LET total_monthly_debt == monthly_mortgage_payment
                                       - monthly_debts * Cents
         IN  RoundHalfEven(total_monthly_debt * 12 * (Ratio4 \div Cents),
                           annual_income)

(* payment in cents, result in ten-thousandths *)
calculate_dti(annual_income, monthly_debts, monthly_mortgage_payment) ==
    IF annual_income = 0 THEN 0
    ELSE LET total_monthly_debt == monthly_debts * Cents
                                       + monthly_mortgage_payment
         IN  RoundHalfEven(total_monthly_debt * 12 * (Ratio4 \div Cents),
                           annual_income)

(***************************************************************************)
(* AffordabilityEvaluator                                                  *)
(***************************************************************************)
(* variant: utilization >= limit *)
UtilizationAbove_Inclusive(loan_amount, max_mortgage, limit) ==
    loan_amount * Tenths * Ratio4 >= limit * max_mortgage

(* variant: utilization = max_mortgage / loan_amount *)
UtilizationAbove_Swapped(loan_amount, max_mortgage, limit) ==
    max_mortgage * Ratio4 > limit * loan_amount * Tenths

(* max_mortgage in tenths; utilization = loan_amount / max_mortgage is     *)
(* kept as a fraction and compared with a threshold in ten-thousandths     *)
UtilizationAbove(loan_amount, max_mortgage, limit) ==
    loan_amount * Tenths * Ratio4 > limit * max_mortgage

(* variant: the utilization decline returns the review grade *)
_determine_decision_and_grade_DeclineKeepsGrade(credit_score, loan_amount, max_mortgage, d, stress_passed) ==
    IF max_mortgage <= 0
    THEN [decision |-> DECLINED, risk_grade |-> None]
    ELSE IF d > max_dti
    THEN [decision |-> DECLINED, risk_grade |-> None]
    ELSE IF UtilizationAbove(loan_amount, max_mortgage, max_lti_excess)
    THEN [decision |-> DECLINED, risk_grade |-> Some(default_review_grade)]
    ELSE IF UtilizationAbove(loan_amount, max_mortgage, review_lti_excess)
    THEN [decision |-> REVIEW, risk_grade |-> Some(default_review_grade)]
    ELSE IF d > review_threshold \/ ~stress_passed
    THEN [decision |-> REVIEW, risk_grade |-> Some(default_review_grade)]
    ELSE [decision |-> APPROVED,
          risk_grade |-> Some(MaxGrade(get_credit_grade(credit_score),
                                       get_dti_grade(d)))]

(* variant: the guard written max_mortgage < 0 *)
_determine_decision_and_grade_StrictGuard(credit_score, loan_amount, max_mortgage, d, stress_passed) ==
    IF max_mortgage < 0
    THEN [decision |-> DECLINED, risk_grade |-> None]
    ELSE IF d > max_dti
    THEN [decision |-> DECLINED, risk_grade |-> None]
    ELSE IF UtilizationAbove(loan_amount, max_mortgage, max_lti_excess)
    THEN [decision |-> DECLINED, risk_grade |-> None]
    ELSE IF UtilizationAbove(loan_amount, max_mortgage, review_lti_excess)
    THEN [decision |-> REVIEW, risk_grade |-> Some(default_review_grade)]
    ELSE IF d > review_threshold \/ ~stress_passed
    THEN [decision |-> REVIEW, risk_grade |-> Some(default_review_grade)]
    ELSE [decision |-> APPROVED,
          risk_grade |-> Some(MaxGrade(get_credit_grade(credit_score),
                                       get_dti_grade(d)))]

(* variant: the stress-test outcome left out of the review rule *)
_determine_decision_and_grade_NoStress(credit_score, loan_amount, max_mortgage, d, stress_passed) ==
    IF max_mortgage <= 0
    THEN [decision |-> DECLINED, risk_grade |-> None]
    ELSE IF d > max_dti
    THEN [decision |-> DECLINED, risk_grade |-> None]
    ELSE IF UtilizationAbove(loan_amount, max_mortgage, max_lti_excess)
    THEN [decision |-> DECLINED, risk_grade |-> None]
    ELSE IF UtilizationAbove(loan_amount, max_mortgage, review_lti_excess)
    THEN [decision |-> REVIEW, risk_grade |-> Some(default_review_grade)]
    ELSE IF d > review_threshold
    THEN [decision |-> REVIEW, risk_grade |-> Some(default_review_grade)]
    ELSE [decision |-> APPROVED,
          risk_grade |-> Some(MaxGrade(get_credit_grade(credit_score),
                                       get_dti_grade(d)))]

_determine_decision_and_grade(credit_score, loan_amount, max_mortgage, d, stress_passed) ==
    IF max_mortgage <= 0
    THEN [decision |-> DECLINED, risk_grade |-> None]
    ELSE IF d > max_dti
    THEN [decision |-> DECLINED, risk_grade |-> None]
    ELSE IF UtilizationAbove(loan_amount, max_mortgage, max_lti_excess)
    THEN [decision |-> DECLINED, risk_grade |-> None]
    ELSE IF UtilizationAbove(loan_amount, max_mortgage, review_lti_excess)
    THEN [decision |-> REVIEW, risk_grade |-> Some(default_review_grade)]
    ELSE IF d > review_threshold \/ ~stress_passed
    THEN [decision |-> REVIEW, risk_grade |-> Some(default_review_grade)]
    ELSE LET credit_grade == get_credit_grade(credit_score)
             dti_grade == get_dti_grade(d)
             final_grade == MaxGrade(credit_grade, dti_grade)
         IN  [decision |-> APPROVED, risk_grade |-> Some(final_grade)]

evaluate(a, d, d_stress, payment) ==
    LET stress_passed == d_stress <= stress_threshold
        max_mortgage == a.annual_income * get_multiplier(a.credit_score)
        dg == _determine_decision_and_grade(a.credit_score, a.loan_amount,
                                            max_mortgage, d, stress_passed)
        recommended_rate ==
            IF dg.decision # DECLINED
            THEN Some(get_recommended_rate(Get(dg.risk_grade)))
            ELSE None
    IN  [max_mortgage |-> RoundHalfEven(max_mortgage * Cents, Tenths),
         monthly_payment |-> payment,
         dti_ratio |-> d,
         stress_test_passed |-> stress_passed,
         decision |-> dg.decision,
         risk_grade |-> dg.risk_grade,
         recommended_rate |-> recommended_rate]

(***************************************************************************)
(* MortgageService.execute_workflow as a function of the application       *)
(***************************************************************************)
execute_workflow(a) ==
    LET p == calculate_monthly_payment(a.loan_amount, a.base_rate,
                                       a.term_years)
        ps == calculate_monthly_payment(a.loan_amount, a.stress_rate,
                                        a.term_years)
    IN  IF ~p.ok THEN Raise(p.err)
        ELSE IF ~ps.ok THEN Raise(ps.err)
        ELSE LET d == calculate_dti(a.annual_income, a.monthly_debts, p.val)
                 ds == calculate_dti(a.annual_income, a.monthly_debts, ps.val)
             IN  [ok |-> TRUE, err |-> "", val |-> evaluate(a, d, ds, p.val)]

(***************************************************************************)
(* Applications                                                            *)
(***************************************************************************)
Incomes == {0, 1000, 1200}
Debts == {0, 30, 31, 40, 41, 43, 44, 50, 51}
LoanAmounts == {0, 40, 50, 300, 3000, 3960, 3961, 4320, 4321, 5000}
CreditScores == {-1, 0, 649, 650, 699, 700, 749, 750, 800}
Rates == {0, 12}
Terms == {-1, 0, 1, 25}

(* longest term, in months, for which the amortization power is computed *)
MaxPowMonths == 12

LoanApplication ==
    [annual_income : Incomes, monthly_debts : Debts,
     loan_amount : LoanAmounts, credit_score : CreditScores,
     base_rate : Rates, stress_rate : Rates, term_years : Terms]

Applications ==
    {a \in LoanApplication :
        \/ a.term_years * 12 <= MaxPowMonths
        \/ (a.base_rate = 0 /\ a.stress_rate = 0)}

(***************************************************************************)
(* The workflow, one step per statement of execute_workflow                *)
(***************************************************************************)
Init ==
    /\ app \in Applications
    /\ pc = "start"
    /\ monthly_payment = None
    /\ stressed_payment = None
    /\ dti = None
    /\ dti_stress = None
    /\ result = None
    /\ error = None

CalcMonthlyPayment ==
    /\ pc = "start"
    /\ LET p == calculate_monthly_payment(app.loan_amount, app.base_rate,
                                          app.term_years)
       IN  IF p.ok
           THEN /\ monthly_payment' = Some(p.val)
                /\ pc' = "stressed_payment"
                /\ error' = error
           ELSE /\ error' = Some(p.err)
                /\ pc' = "raised"
                /\ monthly_payment' = monthly_payment
    /\ UNCHANGED <<app, stressed_payment, dti, dti_stress, result>>

CalcStressedPayment ==
    /\ pc = "stressed_payment"
    /\ LET p == calculate_monthly_payment(app.loan_amount, app.stress_rate,
                                          app.term_years)
       IN  IF p.ok
           THEN /\ stressed_payment' = Some(p.val)
                /\ pc' = "dti"
                /\ error' = error
           ELSE /\ error' = Some(p.err)
                /\ pc' = "raised"
                /\ stressed_payment' = stressed_payment
    /\ UNCHANGED <<app, monthly_payment, dti, dti_stress, result>>

CalcDti ==
    /\ pc = "dti"
    /\ dti' = Some(calculate_dti(app.annual_income, app.monthly_debts,
                                 Get(monthly_payment)))
    /\ pc' = "dti_stress"
    /\ UNCHANGED <<app, monthly_payment, stressed_payment, dti_stress,
                   result, error>>

CalcDtiStress ==
    /\ pc = "dti_stress"
    /\ dti_stress' = Some(calculate_dti(app.annual_income, app.monthly_debts,
                                        Get(stressed_payment)))
    /\ pc' = "evaluate"
    /\ UNCHANGED <<app, monthly_payment, stressed_payment, dti, result,
                   error>>

Evaluate ==
    /\ pc = "evaluate"
    /\ result' = Some(evaluate(app, Get(dti), Get(dti_stress),
                               Get(monthly_payment)))
    /\ pc' = "done"
    /\ UNCHANGED <<app, monthly_payment, stressed_payment, dti, dti_stress,
                   error>>

Next ==
    \/ CalcMonthlyPayment
    \/ CalcStressedPayment
    \/ CalcDti
    \/ CalcDtiStress
    \/ Evaluate

Spec == Init /\ [][Next]_vars

Done == pc = "done"
Res == Get(result)

(***************************************************************************)
(* Quantities the properties speak about                                   *)
(***************************************************************************)
Rank == (APPROVED :> 0) @@ (REVIEW :> 1) @@ (DECLINED :> 2)

(* max_mortgage of the finished evaluation, in tenths *)
ResMaxMortgage == Res.max_mortgage \div (Cents \div Tenths)

(* loan_amount / max_mortgage > limit, for a positive max_mortgage *)
ResUtilizationOver(limit) ==
    /\ ResMaxMortgage > 0
    /\ app.loan_amount * Tenths * Ratio4 > limit * ResMaxMortgage

HardDecline ==
    \/ ResMaxMortgage <= 0
    \/ Res.dti_ratio > max_dti
    \/ ResUtilizationOver(max_lti_excess)

ReviewSignal ==
    \/ ResUtilizationOver(review_lti_excess)
    \/ Res.dti_ratio > review_threshold
    \/ Get(dti_stress) > stress_threshold

(* the evaluation of the current application with one field replaced *)
WithLoan(l) == execute_workflow([app EXCEPT !.loan_amount = l]).val
WithDebts(d) == execute_workflow([app EXCEPT !.monthly_debts = d]).val
WithScore(s) == execute_workflow([app EXCEPT !.credit_score = s]).val

(***************************************************************************)
(* C1: for an application with term_years > 0 under the default policy,    *)
(* risk_grade is absent iff the decision is DECLINED, and recommended_rate *)
(* is absent iff the decision is DECLINED (so both are jointly present or  *)
(* jointly absent).                                                        *)
(***************************************************************************)
C1_GradeAndRateAbsentIffDeclined ==
    Done =>
        /\ app.term_years > 0
        /\ (Res.risk_grade = None) <=> (Res.decision = DECLINED)
        /\ (Res.recommended_rate = None) <=> (Res.decision = DECLINED)
        /\ (Res.risk_grade = None) <=> (Res.recommended_rate = None)

C1_Witness ==
    /\ Done
    /\ Res.decision = REVIEW
    /\ Res.risk_grade # None
    /\ Res.recommended_rate # None

(***************************************************************************)
(* C2: an application with annual_income = 0 is DECLINED whatever its      *)
(* loan_amount, monthly_debts, credit_score and rates, although its DTI    *)
(* is computed as 0.                                                       *)
(***************************************************************************)
C2_ZeroIncomeDeclined ==
    (Done /\ app.annual_income = 0) =>
        /\ Get(dti) = 0
        /\ Get(dti_stress) = 0
        /\ Res.decision = DECLINED

C2_Witness ==
    /\ Done
    /\ app.annual_income = 0
    /\ app.loan_amount = 0
    /\ app.monthly_debts = 0
    /\ app.credit_score = 800
    /\ Res.dti_ratio = 0
    /\ Res.stress_test_passed
    /\ Res.decision = DECLINED

(***************************************************************************)
(* C3: the decision is DECLINED exactly when max_mortgage <= 0, or         *)
(* dti > max_dti, or loan_amount / max_mortgage > max_lti_excess,          *)
(* whatever the stress-test outcome and the credit score.                  *)
(***************************************************************************)
C3_DeclinedIffHardLimit ==
    Done => ((Res.decision = DECLINED) <=> HardDecline)

C3_Witness ==
    /\ Done
    /\ Res.decision = DECLINED
    /\ ResMaxMortgage > 0
    /\ Res.dti_ratio <= review_threshold
    /\ Res.stress_test_passed
    /\ ResUtilizationOver(max_lti_excess)

C5_LoanMonotone ==
    (Done /\ Res.decision = DECLINED) =>
        \A l \in LoanAmounts :
            l > app.loan_amount => WithLoan(l).decision = DECLINED

C5_Witness ==
    /\ Done
    /\ Res.decision = DECLINED
    /\ ResMaxMortgage > 0
    /\ Res.dti_ratio <= max_dti
    /\ \E l \in LoanAmounts :
           /\ l > app.loan_amount
           /\ WithLoan(l).dti_ratio > Res.dti_ratio
    /\ \E l \in LoanAmounts :
           /\ l < app.loan_amount
           /\ WithLoan(l).decision = APPROVED

(***************************************************************************)
(* C6: with every other field fixed, larger monthly_debts never lower      *)
(* dti_ratio and never move the decision toward APPROVED                   *)
(* (APPROVED < MANUAL_REVIEW < DECLINED).                                  *)
(***************************************************************************)
C6_DebtsMonotone ==
    Done =>
        \A d \in Debts :
            d > app.monthly_debts =>
                /\ WithDebts(d).dti_ratio >= Res.dti_ratio
                /\ Rank[WithDebts(d).decision] >= Rank[Res.decision]

C6_Witness ==
    /\ Done
    /\ Res.decision = APPROVED
    /\ \E d \in Debts :
           /\ d > app.monthly_debts
           /\ WithDebts(d).dti_ratio > Res.dti_ratio
           /\ WithDebts(d).decision = REVIEW
    /\ \E d \in Debts :
           /\ d > app.monthly_debts
           /\ WithDebts(d).decision = DECLINED

(***************************************************************************)
(* C7: with years <= 0, calculate_monthly_payment raises the invalid-term  *)
(* error for every loan and rate (rate 0 included); execute_workflow on    *)
(* such an application raises it and constructs no result.  An evaluation  *)
(* ends with a complete result or with an error, never with both and       *)
(* never with a result before the last step.                               *)
(***************************************************************************)
C7_InvalidTermNoPartialResult ==
    /\ app.term_years <= 0 =>
          /\ \A r \in Rates :
                calculate_monthly_payment(app.loan_amount, r, app.term_years)
                    = Raise("ValueError")
          /\ execute_workflow(app) = Raise("ValueError")
          /\ pc \in {"start", "raised"}
          /\ result = None
    /\ pc = "raised" => (error = Some("ValueError") /\ app.term_years <= 0)
    /\ (result # None) <=> Done
    /\ error # None => (result = None /\ pc = "raised")
    /\ Done =>
          /\ error = None
          /\ Res.monthly_payment = Get(monthly_payment)
          /\ Res.dti_ratio = Get(dti)
          /\ Res.decision \in Decision
          /\ execute_workflow(app) = Return(Res)

C7_Witness ==
    /\ pc = "raised"
    /\ app.term_years = 0
    /\ app.base_rate = 0
    /\ app.loan_amount > 0
    /\ error = Some("ValueError")
    /\ result = None

(***************************************************************************)
(* C8: an APPROVED result carries the worse (alphabetically later) of      *)
(* credit_grade(credit_score) and dti_grade(dti), hence a grade no better  *)
(* than either, and recommended_rate = base_market_rate + the adjustment   *)
(* of that grade.                                                          *)
(***************************************************************************)
C8_ApprovedGradeAndRate ==
    (Done /\ Res.decision = APPROVED) =>
        LET cg == get_credit_grade(app.credit_score)
            dg == get_dti_grade(Res.dti_ratio)
            g == Get(Res.risk_grade)
        IN  /\ Res.risk_grade # None
            /\ g \in {cg, dg}
            /\ GradeOrd[g] >= GradeOrd[cg]
            /\ GradeOrd[g] >= GradeOrd[dg]
            /\ Res.recommended_rate = Some(base_market_rate
                                             + rate_adjustments[g])

C8_Witness ==
    /\ Done
    /\ Res.decision = APPROVED
    /\ get_credit_grade(app.credit_score) = "A"
    /\ get_dti_grade(Res.dti_ratio) = "B"
    /\ Res.risk_grade = Some("B")
    /\ Res.recommended_rate = Some(420)

(***************************************************************************)
(* C9: get_multiplier and get_credit_grade return the value of the largest *)
(* breakpoint <= credit_score (750 gives 4.5 and A, 749 gives 4.0 and B,   *)
(* 699 gives 3.5 and C, a score below 0 gives 3.0 and C); get_dti_grade    *)
(* returns the value of the smallest breakpoint >= dti (0.30 gives A,      *)
(* 0.40 gives B, anything above 0.40 gives C).                             *)
(***************************************************************************)
C9_ThresholdLookups ==
    LET s == app.credit_score
    IN  /\ get_multiplier(s) = IF s >= 750 THEN 45
                               ELSE IF s >= 700 THEN 40
                               ELSE IF s >= 650 THEN 35
                               ELSE 30
        /\ get_credit_grade(s) = IF s >= 750 THEN "A"
                                 ELSE IF s >= 700 THEN "B"
                                 ELSE "C"
        /\ dti # None =>
              get_dti_grade(Get(dti)) = IF Get(dti) <= 3000 THEN "A"
                                        ELSE IF Get(dti) <= 4000 THEN "B"
                                        ELSE "C"
        /\ dti_stress # None =>
              get_dti_grade(Get(dti_stress)) =
                  IF Get(dti_stress) <= 3000 THEN "A"
                  ELSE IF Get(dti_stress) <= 4000 THEN "B"
                  ELSE "C"

C9_Witness ==
    /\ app.credit_score = 749
    /\ get_multiplier(app.credit_score) = 40
    /\ get_credit_grade(app.credit_score) = "B"
    /\ dti = Some(4000)
    /\ get_dti_grade(Get(dti)) = "B"
    /\ dti_stress = Some(4000)

(***************************************************************************)
(* C10: under the default policy, with every other field fixed, a higher   *)
(* credit_score never worsens the decision                                 *)
(* (APPROVED < MANUAL_REVIEW < DECLINED), the multiplier being             *)
(* non-decreasing in the score and the DTI values independent of it.       *)
(***************************************************************************)
C10_ScoreMonotone ==
    Done =>
        \A s \in CreditScores :
            s > app.credit_score =>
                /\ get_multiplier(s) >= get_multiplier(app.credit_score)
                /\ WithScore(s).dti_ratio = Res.dti_ratio
                /\ WithScore(s).stress_test_passed = Res.stress_test_passed
                /\ Rank[WithScore(s).decision] <= Rank[Res.decision]

C10_Witness ==
    /\ Done
    /\ Res.decision = DECLINED
    /\ \E s \in CreditScores :
           /\ s > app.credit_score
           /\ WithScore(s).decision = REVIEW
    /\ \E s \in CreditScores :
           /\ s > app.credit_score
           /\ WithScore(s).decision = APPROVED

====
